---- MODULE Spec2Model ----
(***************************************************************************)
(* Model of app.py: the price-trigger monitor (monitor_flow), the helpers  *)
(* it calls (get_quote, extract_last_price_from_quote, place_order,        *)
(* next_market_open_utc) and the activity log.                             *)
(*                                                                         *)
(* Time is in whole seconds of UTC.  Prices are in hundredths (the form    *)
(* fields use format "%.2f"), so 100.00 is 10000.                          *)
(***************************************************************************)
EXTENDS Integers, Sequences, FiniteSets, TLC

VARIABLES
    pc,              \* position of the monitor thread in monitor_flow
    now,             \* the wall clock (UTC seconds)
    args,            \* the arguments monitor_flow was started with
    target_utc,      \* local of monitor_flow (line 224)
    start,           \* local of monitor_flow (line 234)
    placed,          \* local of monitor_flow (line 236)
    last_f,          \* local of monitor_flow (line 250)
    triggered_side,  \* local of monitor_flow (line 258)
    log,             \* st.session_state['log']
    submitted,       \* payloads handed to place_order, in call order
    hist,            \* history of the run: counters the properties read
    ui,              \* the Streamlit session: st.session_state and the widgets
    workers,         \* the monitor threads the Start button has started
    call             \* a function under test: its arguments and its result

vars == <<pc, now, args, target_utc, start, placed, last_f, triggered_side,
          log, submitted, hist, ui, workers, call>>

----------------------------------------------------------------------------
(* Bounds of the model *)

\* poll intervals are chosen so that at most MaxPolls + 1 polls fit the budget
MaxPolls == 2
\* seconds the clock may advance between two consecutive clock reads
MaxJitter == 2

----------------------------------------------------------------------------
(* Program constants *)

timeout_seconds == 6 * 3600
QuoteTimeout == 8
PlaceTimeout == 10
WaitSleepCap == 5
IstOffset == 19800
DaySeconds == 86400
OpenSecondOfDay == 9 * 3600 + 15 * 60

Min(a, b) == IF a < b THEN a ELSE b

----------------------------------------------------------------------------
(* JSON values as Python sees them after resp.json().  A dict is a         *)
(* sequence of <<key, value>> pairs in insertion order.                    *)

JNull == [k |-> "null"]
JNum(n) == [k |-> "num", n |-> n]
JNaN == [k |-> "nan"]
JStr(s) == [k |-> "str", s |-> s]
JList == [k |-> "list"]
JDict(items) == [k |-> "dict", items |-> items]

IsDict(j) == j.k = "dict"

\* key in d
HasKey(d, key) == \E i \in 1..Len(d.items) : d.items[i][1] = key

\* d.get(key): the value, or None when the key is missing
Get(d, key) ==
    IF HasKey(d, key)
    THEN d.items[CHOOSE i \in 1..Len(d.items) : d.items[i][1] = key][2]
    ELSE JNull

\* Python truthiness of a JSON value
Truthy(j) ==
    CASE j.k = "null" -> FALSE
      [] j.k = "num"  -> j.n # 0
      [] j.k = "nan"  -> TRUE
      [] j.k = "str"  -> j.s # ""
      [] j.k = "list" -> FALSE
      [] j.k = "dict" -> Len(j.items) > 0

----------------------------------------------------------------------------
(* Floats: a finite value in hundredths, or NaN *)

Float(n) == [nan |-> FALSE, v |-> n]
NaN == [nan |-> TRUE, v |-> 0]

FloatGE(a, b) == ~a.nan /\ ~b.nan /\ a.v >= b.v
FloatLE(a, b) == ~a.nan /\ ~b.nan /\ a.v <= b.v

\* float(last): raises for a dict, a list and a string that is not a number
PyFloat(j) ==
    CASE j.k = "num" -> [raised |-> FALSE, f |-> Float(j.n)]
      [] j.k = "nan" -> [raised |-> FALSE, f |-> NaN]
      [] j.k = "str" ->
            IF j.s = "100.00" THEN [raised |-> FALSE, f |-> Float(10000)]
            ELSE IF j.s = "nan" THEN [raised |-> FALSE, f |-> NaN]
            ELSE [raised |-> TRUE, f |-> NaN]
      [] OTHER -> [raised |-> TRUE, f |-> NaN]

----------------------------------------------------------------------------
(* get_quote, lines 67-75 *)

get_quote(net) ==
    CASE net.kind = "exception" ->
            JDict(<< <<"error", JStr(net.msg)>> >>)
      [] net.kind = "http" /\ net.status = 200 /\ net.json ->
            net.body
      [] net.kind = "http" /\ net.status = 200 /\ ~net.json ->
            \* resp.json() raises, caught by the outer except
            JDict(<< <<"error", JStr("Expecting value")>> >>)
      [] OTHER ->
            JDict(<< <<"error", JStr("quote_status")>>,
                     <<"text", JStr("body")>> >>)

(* extract_last_price_from_quote, lines 77-100; None is JNull *)

NestedHits(q) ==
    { i \in 1..Len(q.items) :
        /\ IsDict(q.items[i][2])
        /\ (HasKey(q.items[i][2], "lastPrice") \/ HasKey(q.items[i][2], "last")) }

extract_last_price_from_quote(q) ==
    IF ~Truthy(q) THEN JNull
    ELSE IF ~IsDict(q) THEN JNull
    ELSE LET data == IF Truthy(Get(q, "data")) THEN Get(q, "data") ELSE q
         IN  IF IsDict(data) /\ HasKey(data, "lastPrice") THEN Get(data, "lastPrice")
             ELSE IF IsDict(data) /\ HasKey(data, "last") THEN Get(data, "last")
             ELSE IF NestedHits(q) # {}
                  THEN LET i == CHOOSE m \in NestedHits(q) :
                                    \A o \in NestedHits(q) : m <= o
                           v == q.items[i][2]
                       IN  IF HasKey(v, "lastPrice") THEN Get(v, "lastPrice")
                           ELSE Get(v, "last")
                  ELSE JNull

----------------------------------------------------------------------------
(* place_order, lines 102-110: what the function hands back to its caller. *)
(* raised is TRUE when an exception leaves the function.                   *)

place_order_propagates(net) ==
    IF net.kind = "exception"
    THEN [raised |-> TRUE, status_code |-> "exception", field |-> "error"]
    ELSE [raised |-> FALSE, status_code |-> net.status,
          field |-> IF net.json THEN "resp" ELSE "resp_text"]

place_order(net) ==
    IF net.kind = "exception"
    THEN [raised |-> FALSE, status_code |-> "exception", field |-> "error"]
    ELSE [raised |-> FALSE, status_code |-> net.status,
          field |-> IF net.json THEN "resp" ELSE "resp_text"]

----------------------------------------------------------------------------
(* ist_now and next_market_open_utc, lines 131-146.  A local (IST) time is *)
(* the UTC second count plus the fixed offset of Asia/Kolkata.             *)

ist_now(utc) == utc + IstOffset

ReplaceToOpen(local) == (local \div DaySeconds) * DaySeconds + OpenSecondOfDay

next_market_open_utc_strict(utc) ==
    LET now_ist == ist_now(utc)
        today_open_ist == ReplaceToOpen(now_ist)
        open_ist == IF now_ist > today_open_ist
                    THEN ReplaceToOpen(now_ist + DaySeconds)
                    ELSE today_open_ist
    IN  open_ist - IstOffset

next_market_open_utc(utc) ==
    LET now_ist == ist_now(utc)
        today_open_ist == ReplaceToOpen(now_ist)
        open_ist == IF now_ist >= today_open_ist
                    THEN ReplaceToOpen(now_ist + DaySeconds)
                    ELSE today_open_ist
    IN  open_ist - IstOffset

----------------------------------------------------------------------------
(* The inputs of the model *)

\* entry prices and tick prices, in hundredths
EntryPrices == {10000, 9950}
TickPrices == {9800, 9950, 10000, 10100}

\* the first market open after the epoch: 09:15 IST as a UTC second count
FirstOpenUtc == next_market_open_utc(0)

\* seconds before the open at which a waiting run is started
WaitStarts == {1, 65}

\* poll_interval is any integer >= 1 (line 195); these leave room for at most
\* MaxPolls + 1 polls within the budget
PollIntervals == { (timeout_seconds \div k) - 1 : k \in 1..MaxPolls }

\* what the network gives a quote request; cls is what the outcome is, said
\* by whoever sent it, for the properties to compare the code's verdict with
QuoteBody(body, cls) ==
    [kind |-> "http", status |-> 200, json |-> TRUE, body |-> body, cls |-> cls]

NetQuotes ==
    { [kind |-> "exception", msg |-> "timeout", cls |-> "fail"],
      [kind |-> "http", status |-> 500, json |-> FALSE, body |-> JNull, cls |-> "fail"],
      [kind |-> "http", status |-> 200, json |-> FALSE, body |-> JNull, cls |-> "fail"],
      QuoteBody(JDict(<< >>), "absent"),
      QuoteBody(JList, "absent"),
      QuoteBody(JDict(<< <<"lastPrice", JNull>> >>), "absent"),
      QuoteBody(JDict(<< <<"status", JStr("ok")>> >>), "absent"),
      QuoteBody(JDict(<< <<"lastPrice", JStr("abc")>> >>), "nonnumeric"),
      QuoteBody(JDict(<< <<"data", JDict(<< <<"last", JList>> >>)>> >>), "nonnumeric"),
      QuoteBody(JDict(<< <<"lastPrice", JNaN>> >>), "nan"),
      QuoteBody(JDict(<< <<"lastPrice", JStr("100.00")>> >>), "tick"),
      QuoteBody(JDict(<< <<"NSE", JDict(<< <<"last", JNum(10100)>> >>)>> >>), "tick") }
    \cup { QuoteBody(JDict(<< <<"data", JDict(<< <<"lastPrice", JNum(p)>> >>)>> >>), "tick")
             : p \in TickPrices }

\* what the network gives an order request
NetPlaces ==
    { [kind |-> "exception", status |-> "exception", json |-> FALSE],
      [kind |-> "http", status |-> "200", json |-> TRUE],
      [kind |-> "http", status |-> "400", json |-> TRUE],
      [kind |-> "http", status |-> "502", json |-> FALSE] }

----------------------------------------------------------------------------
(* The activity log, lines 211-217 *)

append_log(l, t, entry) == Append(l, [t |-> ist_now(t)] @@ entry)

Msg(m) == [msg |-> m]

CountMsg(l, ms) == Cardinality({ i \in 1..Len(l) : l[i].msg \in ms })

----------------------------------------------------------------------------
(* monitor_flow, lines 220-292 *)

NoFloat == [nan |-> TRUE, v |-> 0]

\* a run of monitor_flow on its own: no session around it, no function under test
NoUi == [loaded |-> FALSE]

NoCall == [fn |-> "none"]

Init ==
    /\ pc = "start"
    /\ \E e \in EntryPrices, ot \in {"MARKET", "LIMIT"}, pi \in PollIntervals,
          auto \in BOOLEAN :
          args = [symbol |-> "RELIANCE", sec_id |-> "2885", entry_price |-> e,
                  order_type |-> ot, qty |-> 1, sl_pct |-> 50, tgt_pct |-> 100,
                  poll_interval |-> pi, auto_start_at_open |-> auto]
    /\ IF args.auto_start_at_open
       THEN \E r \in WaitStarts : now = FirstOpenUtc - r
       ELSE now = FirstOpenUtc + 300
    /\ target_utc = 0
    /\ start = 0
    /\ placed = FALSE
    /\ last_f = NoFloat
    /\ triggered_side = "None"
    /\ log = << >>
    /\ submitted = << >>
    /\ hist = [nFetch |-> 0, nSleep |-> 0, nFail |-> 0, nPlaceReturn |-> 0,
               iterAt |-> 0, iterSleeps |-> 0,
               placeAt |-> 0, placeFetch |-> 0, placeSleeps |-> 0,
               cls |-> "none", placeStatus |-> "none",
               waitSleepCalled |-> FALSE, waitSleepNegative |-> FALSE,
               waitSleepOverCap |-> FALSE]
    /\ ui = NoUi
    /\ workers = << >>
    /\ call = NoCall

\* lines 222-224 and 231-236
Begin ==
    /\ pc = "start"
    /\ IF args.auto_start_at_open
       THEN /\ log' = append_log(log, now, Msg("Auto-start at market open enabled"))
            /\ target_utc' = next_market_open_utc(now)
            /\ pc' = "wait_check"
            /\ UNCHANGED <<start, placed>>
       ELSE /\ log' = append_log(log, now, Msg("Starting immediate quote monitoring"))
            /\ start' = now
            /\ placed' = FALSE
            /\ pc' = "loop"
            /\ UNCHANGED target_utc
    /\ UNCHANGED <<now, args, last_f, triggered_side, submitted, hist>>
    /\ UNCHANGED <<ui, workers, call>>

\* line 225, and lines 230, 234-236 when the loop ends
WaitCheck ==
    /\ pc = "wait_check"
    /\ IF now < target_utc
       THEN /\ pc' = "wait_body"
            /\ UNCHANGED <<log, start, placed>>
       ELSE /\ log' = append_log(log, now, Msg("Market open reached"))
            /\ start' = now
            /\ placed' = FALSE
            /\ pc' = "loop"
    /\ UNCHANGED <<now, args, target_utc, last_f, triggered_side, submitted, hist>>
    /\ UNCHANGED <<ui, workers, call>>

\* line 229: the argument of time.sleep
WaitSleep(remaining) == Min(WaitSleepCap, remaining)

\* lines 226-229: the clock is read again (it may have moved on since line
\* 225); time.sleep raises ValueError for a negative length, which ends the
\* thread
WaitBody ==
    /\ pc = "wait_body"
    /\ \E j \in 0..MaxJitter :
         LET t == now + j
             remaining == target_utc - t
             l == IF remaining % 60 < 1
                  THEN append_log(log, t, [msg |-> "Time to market open",
                                           minutes |-> remaining \div 60])
                  ELSE log
         IN  /\ log' = l
             /\ hist' = [hist EXCEPT
                  !.waitSleepCalled = TRUE,
                  !.waitSleepNegative = @ \/ WaitSleep(remaining) < 0,
                  !.waitSleepOverCap = @ \/ WaitSleep(remaining) > WaitSleepCap]
             /\ IF WaitSleep(remaining) < 0
                THEN /\ now' = t
                     /\ pc' = "crashed"
                ELSE /\ now' = t + WaitSleep(remaining)
                     /\ pc' = "wait_check"
    /\ UNCHANGED <<args, target_utc, start, placed, last_f, triggered_side,
                   submitted>>
    /\ UNCHANGED <<ui, workers, call>>

\* line 238: the condition of the polling loop
LoopCondNoBudget(isPlaced, elapsed) == ~isPlaced

LoopCond(isPlaced, elapsed) == ~isPlaced /\ elapsed < timeout_seconds

\* line 238: when the condition holds, get_quote is called (line 239)
LoopCheck ==
    /\ pc = "loop"
    /\ IF LoopCond(placed, now - start)
       THEN /\ pc' = "fetch"
            /\ hist' = [hist EXCEPT !.nFetch = @ + 1, !.iterAt = now,
                                    !.iterSleeps = hist.nSleep]
       ELSE /\ pc' = "exit"
            /\ UNCHANGED hist
    /\ UNCHANGED <<now, args, target_utc, start, placed, last_f, triggered_side,
                   log, submitted>>
    /\ UNCHANGED <<ui, workers, call>>

\* lines 258-262: the trigger rule; "None" is Python's None
TriggerSideSellOnly(p, e) ==
    IF FloatGE(p, e) THEN "SELL" ELSE "None"

TriggerSideBuyOnTie(p, e) ==
    IF FloatGE(p, e) /\ ~FloatLE(p, e) THEN "SELL"
    ELSE IF FloatLE(p, e) THEN "BUY"
    ELSE "None"

TriggerSide(p, e) ==
    IF FloatGE(p, e) THEN "SELL"
    ELSE IF FloatLE(p, e) THEN "BUY"
    ELSE "None"

\* lines 267-281 with the price sent whatever the order type
BuildPayloadAlwaysPrice(a, side) ==
    [exchangeSegment |-> "NSE", symbol |-> a.symbol, securityId |-> a.sec_id,
     transactionType |-> side, quantity |-> a.qty, orderType |-> a.order_type,
     productCode |-> "INTRADAY", validity |-> "DAY",
     price |-> a.entry_price,
     stopLossPercent |-> a.sl_pct, targetPercent |-> a.tgt_pct]

\* lines 267-281: the order payload
BuildPayload(a, side) ==
    IF a.order_type = "LIMIT"
    THEN [exchangeSegment |-> "NSE", symbol |-> a.symbol, securityId |-> a.sec_id,
          transactionType |-> side, quantity |-> a.qty, orderType |-> a.order_type,
          productCode |-> "INTRADAY", validity |-> "DAY",
          price |-> a.entry_price,
          stopLossPercent |-> a.sl_pct, targetPercent |-> a.tgt_pct]
    ELSE [exchangeSegment |-> "NSE", symbol |-> a.symbol, securityId |-> a.sec_id,
          transactionType |-> side, quantity |-> a.qty, orderType |-> a.order_type,
          productCode |-> "INTRADAY", validity |-> "DAY",
          stopLossPercent |-> a.sl_pct, targetPercent |-> a.tgt_pct]

\* lines 242-243, 247-248, 253-254: where a failed poll goes next
AfterFailedPollNoSleep == "loop"

AfterFailedPoll == "sleep"

\* lines 239-282: get_quote returns after d seconds and the iteration runs
\* up to its sleep or up to the call of place_order
QuoteReturn ==
    /\ pc = "fetch"
    /\ \E net \in NetQuotes, d \in {0, QuoteTimeout} :
         LET t == now + d
             q == get_quote(net)
             h == [hist EXCEPT !.cls = net.cls,
                               !.nFail = @ + (IF net.cls \in {"fail", "absent", "nonnumeric"}
                                              THEN 1 ELSE 0)]
             last == extract_last_price_from_quote(q)
             conv == PyFloat(last)
             side == TriggerSide(conv.f, Float(args.entry_price))
             tickLog == append_log(log, t, [msg |-> "Tick", f |-> conv.f])
         IN  /\ now' = t
             /\ IF IsDict(q) /\ Truthy(Get(q, "error"))
                THEN /\ log' = append_log(log, t, [msg |-> "Quote fetch error",
                                                   err |-> Get(q, "error").s])
                     /\ pc' = AfterFailedPoll
                     /\ hist' = h
                     /\ UNCHANGED <<last_f, triggered_side, submitted>>
                ELSE IF last.k = "null"
                THEN /\ log' = append_log(log, t, Msg("Could not extract last price"))
                     /\ pc' = AfterFailedPoll
                     /\ hist' = h
                     /\ UNCHANGED <<last_f, triggered_side, submitted>>
                ELSE IF conv.raised
                THEN /\ log' = append_log(log, t, Msg("Non-numeric last price"))
                     /\ pc' = AfterFailedPoll
                     /\ hist' = h
                     /\ UNCHANGED <<last_f, triggered_side, submitted>>
                ELSE /\ last_f' = conv.f
                     /\ triggered_side' = side
                     /\ IF side # "None"
                        THEN /\ log' = append_log(tickLog, t,
                                          [msg |-> "Entry touched", side |-> side])
                             /\ submitted' = Append(submitted, BuildPayload(args, side))
                             /\ hist' = [h EXCEPT !.placeAt = t,
                                                  !.placeFetch = h.nFetch,
                                                  !.placeSleeps = h.nSleep]
                             /\ pc' = "place"
                        ELSE /\ log' = tickLog
                             /\ pc' = "sleep"
                             /\ hist' = h
                             /\ UNCHANGED submitted
    /\ UNCHANGED <<args, target_utc, start, placed>>
    /\ UNCHANGED <<ui, workers, call>>

\* lines 284-287: monitoring stops whatever place_order returned
StopAfterPlaceIfAccepted(resp) == resp.status_code = "200"

StopAfterPlace(resp) == TRUE

\* line 287: break leaves the loop for line 291
AfterStopNoBreak == "sleep"

AfterStop == "exit"

\* lines 282-287: place_order returns after d seconds
PlaceReturn ==
    /\ pc = "place"
    /\ \E net \in NetPlaces, d \in {0, PlaceTimeout} :
         LET t == now + d
             resp == place_order(net)
             respLog == append_log(log, t, [msg |-> "Place order response",
                                            status_code |-> resp.status_code,
                                            field |-> resp.field])
         IN  /\ now' = t
             /\ hist' = [hist EXCEPT !.nPlaceReturn = @ + 1,
                                     !.placeStatus = net.status]
             /\ IF resp.raised
                THEN \* an exception out of place_order would end the thread
                     /\ pc' = "crashed"
                     /\ UNCHANGED <<log, placed>>
                ELSE IF StopAfterPlace(resp)
                THEN /\ placed' = TRUE
                     /\ log' = append_log(respLog, t,
                                  [msg |-> "Stopped monitoring after placing",
                                   side |-> triggered_side])
                     /\ pc' = AfterStop
                ELSE \* falls through to line 289
                     /\ log' = respLog
                     /\ pc' = "sleep"
                     /\ UNCHANGED placed
    /\ UNCHANGED <<args, target_utc, start, last_f, triggered_side, submitted>>
    /\ UNCHANGED <<ui, workers, call>>

\* lines 242, 247, 253, 289: time.sleep(poll_interval)
Sleep ==
    /\ pc = "sleep"
    /\ now' = now + args.poll_interval
    /\ hist' = [hist EXCEPT !.nSleep = @ + 1]
    /\ pc' = "loop"
    /\ UNCHANGED <<args, target_utc, start, placed, last_f, triggered_side,
                   log, submitted>>
    /\ UNCHANGED <<ui, workers, call>>

\* lines 291-292: after the loop
Exit ==
    /\ pc = "exit"
    /\ log' = IF ~placed
              THEN append_log(log, now, Msg("Monitoring ended: no execution"))
              ELSE log
    /\ pc' = "done"
    /\ UNCHANGED <<now, args, target_utc, start, placed, last_f, triggered_side,
                   submitted, hist>>
    /\ UNCHANGED <<ui, workers, call>>

Next ==
    \/ Begin
    \/ WaitCheck
    \/ WaitBody
    \/ LoopCheck
    \/ QuoteReturn
    \/ PlaceReturn
    \/ Sleep
    \/ Exit

Spec == Init /\ [][Next]_vars

\* the thread is scheduled and every call and sleep returns
FairSpec == Init /\ [][Next]_vars /\ WF_vars(Next)

----------------------------------------------------------------------------
(* next_market_open_utc on its own: the clock is drawn from sample instants *)
(* of several days and the function is applied to it.                      *)

\* the sampled instants span days 0..MaxDay
MaxDay == 4

\* seconds of the UTC day: around 09:15 IST (03:45 UTC), around midnight IST
\* (18:30 UTC), around midnight UTC, 09:20 IST and noon UTC
SecondSamples ==
    (13495..13505) \cup (66595..66605) \cup {0, 1, 13800, 43200, 86399}

OpenSamples == { d * DaySeconds + x : d \in 0..MaxDay, x \in SecondSamples }

InitOpen ==
    /\ pc = "open_start"
    /\ now \in OpenSamples
    /\ args = [symbol |-> "RELIANCE", sec_id |-> "2885", entry_price |-> 10000,
               order_type |-> "MARKET", qty |-> 1, sl_pct |-> 50, tgt_pct |-> 100,
               poll_interval |-> 2, auto_start_at_open |-> TRUE]
    /\ target_utc = 0
    /\ start = 0
    /\ placed = FALSE
    /\ last_f = NoFloat
    /\ triggered_side = "None"
    /\ log = << >>
    /\ submitted = << >>
    /\ hist = [nFetch |-> 0, nSleep |-> 0, nFail |-> 0, nPlaceReturn |-> 0,
               iterAt |-> 0, iterSleeps |-> 0,
               placeAt |-> 0, placeFetch |-> 0, placeSleeps |-> 0,
               cls |-> "none", placeStatus |-> "none",
               waitSleepCalled |-> FALSE, waitSleepNegative |-> FALSE,
               waitSleepOverCap |-> FALSE]
    /\ ui = NoUi
    /\ workers = << >>
    /\ call = NoCall

\* line 224: target_utc = next_market_open_utc()
OpenCompute ==
    /\ pc = "open_start"
    /\ target_utc' = next_market_open_utc(now)
    /\ pc' = "open_done"
    /\ UNCHANGED <<now, args, start, placed, last_f, triggered_side, log,
                   submitted, hist>>
    /\ UNCHANGED <<ui, workers, call>>

NextOpen == OpenCompute

SpecOpen == InitOpen /\ [][NextOpen]_vars

----------------------------------------------------------------------------
(* Text: a Python str is a sequence of one-character strings *)

\* str.lower, lines 50 and 54
lower(s) ==
    [i \in 1..Len(s) |->
        IF s[i] = "A" THEN "a" ELSE IF s[i] = "B" THEN "b" ELSE s[i]]

RECURSIVE lstrip(_)
lstrip(s) == IF s # << >> /\ Head(s) = " " THEN lstrip(Tail(s)) ELSE s

RECURSIVE rstrip(_)
rstrip(s) ==
    IF s # << >> /\ s[Len(s)] = " " THEN rstrip(SubSeq(s, 1, Len(s) - 1)) ELSE s

\* str.strip, line 54
strip(s) == rstrip(lstrip(s))

\* a cell pandas read as missing (read_csv with dtype=str leaves NaN there)
NaNCell == <<"NaN">>

\* re.compile, reached through Series.str.contains (regex=True is its
\* default): an opening parenthesis that is never closed is an error
re_compiles(pat) == \A i \in 1..Len(pat) : pat[i] # "("

\* pattern.search(s) for a pattern of literal characters and '.', which
\* stands for any character
re_search(pat, s) ==
    \E o \in 0..(Len(s) - Len(pat)) :
        \A i \in 1..Len(pat) : pat[i] = "." \/ pat[i] = s[o + i]

----------------------------------------------------------------------------
(* The instruments table and find_instrument, lines 31-65 *)

\* lines 33-50: one row of the table, from its symbol and security id cells
InstrumentRow(sym, sec) ==
    [tradingsymbol_norm |-> sym, securityId_norm |-> sec,
     tradingsymbol_norm_lc |-> IF sym = NaNCell THEN NaNCell ELSE lower(sym)]

NotFound == [kind |-> "None"]

Found(df, i) == [kind |-> "row", i |-> i, row |-> df[i]]

FirstOf(S) == CHOOSE i \in S : \A j \in S : i <= j

\* line 61: the mask of the rows that contain q
contains(df, q) ==
    { i \in 1..Len(df) : /\ df[i].tradingsymbol_norm_lc # NaNCell
                         /\ re_search(q, df[i].tradingsymbol_norm_lc) }

\* lines 53-65
find_instrument(df, query) ==
    LET q == lower(strip(query))
        exact == { i \in 1..Len(df) : df[i].tradingsymbol_norm_lc = q }
    IN  IF q = << >> THEN NotFound
        ELSE IF exact # {} THEN Found(df, FirstOf(exact))
        ELSE IF ~re_compiles(q) THEN [kind |-> "raised", err |-> "re.error"]
        ELSE IF contains(df, q) # {} THEN Found(df, FirstOf(contains(df, q)))
        ELSE NotFound

MaxRows == 2
MaxQueryLen == 2

\* symbols of the table as the CSV spells them, one cell missing
Symbols == { <<"A">>, <<"A", "B">>, <<"B", "A">>, <<"a", "b", "b">>, NaNCell }

\* what the operator may type in the symbol box
QueryChars == {"a", "A", "b", " ", ".", "("}

SeqsUpTo(S, n) == UNION { [1..k -> S] : k \in 0..n }

Tables ==
    { [i \in 1..Len(syms) |-> InstrumentRow(syms[i], "1")] :
        syms \in SeqsUpTo(Symbols, MaxRows) }

Queries == SeqsUpTo(QueryChars, MaxQueryLen)

InitFind ==
    /\ pc = "find_start"
    /\ \E df \in Tables, query \in Queries :
          call = [fn |-> "find_instrument", df |-> df, query |-> query,
                  result |-> NotFound]
    /\ now = 0
    /\ args = [symbol |-> "RELIANCE", sec_id |-> "2885", entry_price |-> 10000,
               order_type |-> "MARKET", qty |-> 1, sl_pct |-> 50, tgt_pct |-> 100,
               poll_interval |-> 2, auto_start_at_open |-> FALSE]
    /\ target_utc = 0
    /\ start = 0
    /\ placed = FALSE
    /\ last_f = NoFloat
    /\ triggered_side = "None"
    /\ log = << >>
    /\ submitted = << >>
    /\ hist = [nFetch |-> 0]
    /\ ui = NoUi
    /\ workers = << >>

\* line 308: found = find_instrument(df, symbol_input)
FindCall ==
    /\ pc = "find_start"
    /\ call' = [call EXCEPT !.result = find_instrument(call.df, call.query)]
    /\ pc' = "find_done"
    /\ UNCHANGED <<now, args, target_utc, start, placed, last_f, triggered_side,
                   log, submitted, hist, ui, workers>>

NextFind == FindCall

SpecFind == InitFind /\ [][NextFind]_vars

----------------------------------------------------------------------------
(* The Streamlit session, lines 149-348: every press of a button runs the
   script once from the top: the handlers of Start and Stop (lines 297-322),
   the log display (line 325), the handlers of Cancel and Modify (lines
   332-348).  The monitor threads run beside it. *)

MaxPresses == 3
DisplayCap == 400

\* the session's clock starts after the open of the first day
SessionStart == FirstOpenUtc + 300

\* line 325: st.session_state['log'][-400:]
LastN(l, n) == IF Len(l) <= n THEN l ELSE SubSeq(l, Len(l) - n + 1, Len(l))

\* a session that has been in use: the Stop button was pressed often
UsedLog ==
    [i \in 1..(DisplayCap - 1) |-> [t |-> ist_now(SessionStart), msg |-> "Stop requested"]]

\* the table the download or the upload gives (lines 154-190)
SessionTable ==
    << InstrumentRow(<<"A", "B">>, "11"), InstrumentRow(<<"A">>, "12") >>

\* what the operator may have in the widgets when Start is pressed; the
\* sessions explored leave 'Auto Start at Market Open' unticked (the wait for
\* the open is explored in Spec)
StartTokens == {"", "token"}
StartSymbols == { << >>, <<" ">>, <<"a">>, <<"b", "b">>, <<"(">> }
StartEntryPrices == {0, 10000}

NoForm == [button |-> "none"]

\* lines 298-310: the error the Start handler reports, "none" if it goes on
StartErrorNoPriceCheck(loaded, token, symbol, entry, found) ==
    IF ~loaded THEN "Load instruments list first"
    ELSE IF token = "" THEN "Provide Access Token"
    ELSE IF symbol = << >> THEN "Provide valid symbol and entry price"
    ELSE IF found.kind = "None" THEN "Symbol not found in instruments list"
    ELSE "none"

StartError(loaded, token, symbol, entry, found) ==
    IF ~loaded THEN "Load instruments list first"
    ELSE IF token = "" THEN "Provide Access Token"
    ELSE IF symbol = << >> \/ entry <= 0 THEN "Provide valid symbol and entry price"
    ELSE IF found.kind = "None" THEN "Symbol not found in instruments list"
    ELSE "none"

\* lines 313-316: the thread the Start handler starts
NewWorker(found, f) ==
    [pc |-> "start",
     args |-> [symbol |-> found.row.tradingsymbol_norm,
               sec_id |-> found.row.securityId_norm,
               entry_price |-> f.entry_price, order_type |-> f.order_type,
               qty |-> 1, sl_pct |-> 50, tgt_pct |-> 100,
               poll_interval |-> f.poll_interval,
               auto_start_at_open |-> FALSE],
     start |-> 0, placed |-> FALSE, last_f |-> NoFloat,
     triggered_side |-> "None", wake |-> 0, nFetch |-> 0, orders |-> << >>]

InitSession ==
    /\ pc = "session"
    /\ now = SessionStart
    /\ log = << >>
    /\ ui = [loaded |-> FALSE, df |-> << >>, pc |-> "idle", form |-> NoForm,
             err |-> "none", full |-> FALSE, presses |-> 0,
             poll_interval |-> timeout_seconds - 1]
    /\ workers = << >>
    /\ call = NoCall
    /\ args = [symbol |-> "RELIANCE", sec_id |-> "2885", entry_price |-> 10000,
               order_type |-> "MARKET", qty |-> 1, sl_pct |-> 50, tgt_pct |-> 100,
               poll_interval |-> 2, auto_start_at_open |-> FALSE]
    /\ target_utc = 0
    /\ start = 0
    /\ placed = FALSE
    /\ last_f = NoFloat
    /\ triggered_side = "None"
    /\ submitted = << >>
    /\ hist = [nFetch |-> 0]

\* a session that has been in use: the table was loaded by its first press,
\* the log is one entry short of what the text area shows, and the poll
\* interval box holds the whole budget, so that a thread polls once
InitUsedSession ==
    /\ pc = "session"
    /\ now = SessionStart
    /\ log = UsedLog
    /\ ui = [loaded |-> TRUE, df |-> SessionTable, pc |-> "idle", form |-> NoForm,
             err |-> "none", full |-> FALSE, presses |-> 1,
             poll_interval |-> timeout_seconds]
    /\ workers = << >>
    /\ call = NoCall
    /\ args = [symbol |-> "RELIANCE", sec_id |-> "2885", entry_price |-> 10000,
               order_type |-> "MARKET", qty |-> 1, sl_pct |-> 50, tgt_pct |-> 100,
               poll_interval |-> 2, auto_start_at_open |-> FALSE]
    /\ target_utc = 0
    /\ start = 0
    /\ placed = FALSE
    /\ last_f = NoFloat
    /\ triggered_side = "None"
    /\ submitted = << >>
    /\ hist = [nFetch |-> 0]

\* what the session's actions leave alone: the state of a lone monitor_flow
SessionFrame ==
    UNCHANGED <<pc, args, target_utc, start, placed, last_f, triggered_side,
                submitted, hist, call>>

\* lines 153-190: the download button (or an upload) stores the table
PressLoad ==
    /\ ui.pc = "idle"
    /\ ui.presses < MaxPresses
    /\ ui' = [ui EXCEPT !.loaded = TRUE, !.df = SessionTable, !.pc = "display",
                        !.form = [button |-> "load"], !.err = "none",
                        !.presses = @ + 1]
    /\ UNCHANGED <<now, log, workers>>
    /\ SessionFrame

\* lines 297-317: the Start button
PressStart ==
    /\ ui.pc = "idle"
    /\ ui.presses < MaxPresses
    /\ \E token \in StartTokens, symbol \in StartSymbols,
          entry \in StartEntryPrices, ot \in {"MARKET"} :
         LET f == [button |-> "start", access_token |-> token,
                   symbol_input |-> symbol, entry_price |-> entry,
                   order_type |-> ot, poll_interval |-> ui.poll_interval]
             found == find_instrument(ui.df, symbol)
             err == StartError(ui.loaded, token, symbol, entry, found)
         IN  IF err # "none"
             THEN /\ ui' = [ui EXCEPT !.pc = "display", !.form = f, !.err = err,
                                      !.presses = @ + 1]
                  /\ UNCHANGED <<log, workers>>
             ELSE IF found.kind = "raised"
             THEN \* the exception ends the script run; Streamlit shows it
                  /\ ui' = [ui EXCEPT !.pc = "idle", !.form = NoForm,
                                      !.err = found.err, !.presses = @ + 1]
                  /\ UNCHANGED <<log, workers>>
             ELSE /\ log' = append_log(log, now,
                              [msg |-> "Prepared to monitor",
                               sym |-> found.row.tradingsymbol_norm,
                               secId |-> found.row.securityId_norm])
                  /\ workers' = Append(workers, NewWorker(found, f))
                  /\ ui' = [ui EXCEPT !.pc = "display", !.form = f,
                                      !.err = "none", !.presses = @ + 1]
    /\ UNCHANGED now
    /\ SessionFrame

\* lines 319-322 with a Stop that ends the threads
PressStopEndsThreads ==
    /\ ui.pc = "idle"
    /\ ui.presses < MaxPresses
    /\ log' = append_log(log, now, Msg("Stop requested"))
    /\ ui' = [ui EXCEPT !.pc = "display", !.form = [button |-> "stop"],
                        !.err = "none", !.presses = @ + 1]
    /\ workers' = [w \in 1..Len(workers) |-> [workers[w] EXCEPT !.pc = "done"]]
    /\ UNCHANGED now
    /\ SessionFrame

\* lines 319-322: the Stop button
PressStop ==
    /\ ui.pc = "idle"
    /\ ui.presses < MaxPresses
    /\ log' = append_log(log, now, Msg("Stop requested"))
    /\ ui' = [ui EXCEPT !.pc = "display", !.form = [button |-> "stop"],
                        !.err = "none", !.presses = @ + 1]
    /\ UNCHANGED <<now, workers>>
    /\ SessionFrame

\* lines 297-322 when the Cancel or the Modify button was pressed: neither
\* the Start nor the Stop handler runs
PressManual ==
    /\ ui.pc = "idle"
    /\ ui.presses < MaxPresses
    /\ \E b \in {"cancel", "modify"}, id \in {"", "77"}, token \in StartTokens :
         ui' = [ui EXCEPT !.pc = "display",
                          !.form = [button |-> b, order_id_input |-> id,
                                    access_token |-> token],
                          !.err = "none", !.presses = @ + 1]
    /\ UNCHANGED <<now, log, workers>>
    /\ SessionFrame

\* line 325: the text area is given a copy of the last 400 entries, joined
Displayed(l) == LastN(l, DisplayCap)

\* line 325 that truncates the stored list, not a copy of it
DisplayInPlace ==
    /\ ui.pc = "display"
    /\ log' = Displayed(log)
    /\ ui' = [ui EXCEPT !.full = (Len(Displayed(log)) = DisplayCap),
                        !.pc = IF ui.form.button \in {"cancel", "modify"}
                               THEN "manual" ELSE "idle",
                        !.form = IF ui.form.button \in {"cancel", "modify"}
                                 THEN @ ELSE NoForm]
    /\ UNCHANGED <<now, workers>>
    /\ SessionFrame

Display ==
    /\ ui.pc = "display"
    /\ ui' = [ui EXCEPT !.full = (Len(Displayed(log)) = DisplayCap),
                        !.pc = IF ui.form.button \in {"cancel", "modify"}
                               THEN "manual" ELSE "idle",
                        !.form = IF ui.form.button \in {"cancel", "modify"}
                                 THEN @ ELSE NoForm]
    /\ UNCHANGED <<now, log, workers>>
    /\ SessionFrame

\* lines 112-129: cancel_order_api and modify_order_api catch every exception
manual_order_api(net) ==
    IF net.kind = "exception" THEN [status_code |-> "exception"]
    ELSE [status_code |-> net.status]

\* lines 332-348: the handlers of Cancel and Modify
Manual ==
    /\ ui.pc = "manual"
    /\ IF ui.form.order_id_input = "" \/ ui.form.access_token = ""
       THEN /\ ui' = [ui EXCEPT !.pc = "idle", !.form = NoForm,
                                !.err = "Provide Order ID and token"]
            /\ UNCHANGED log
       ELSE \E net \in NetPlaces :
              /\ log' = append_log(log, now,
                           [msg |-> IF ui.form.button = "cancel"
                                    THEN "Cancel API" ELSE "Modify API",
                            status_code |-> manual_order_api(net).status_code])
              /\ ui' = [ui EXCEPT !.pc = "idle", !.form = NoForm]
    /\ UNCHANGED <<now, workers>>
    /\ SessionFrame

----------------------------------------------------------------------------
(* monitor_flow as one of several threads of the session: the steps of
   lines 231-292 on the locals of thread w, the log and the clock shared *)

\* what the network gives the threads of the session
SessionQuotes ==
    { [kind |-> "exception", msg |-> "timeout", cls |-> "fail"],
      QuoteBody(JDict(<< <<"data", JDict(<< <<"lastPrice", JNum(9800)>> >>)>> >>), "tick") }

SessionPlaces ==
    { [kind |-> "exception", status |-> "exception", json |-> FALSE],
      [kind |-> "http", status |-> "200", json |-> TRUE] }

Threads == 1..Len(workers)

\* line 238 (and 239 when the condition holds): the thread's next position
LoopTop(me) ==
    IF LoopCond(me.placed, now - me.start)
    THEN [me EXCEPT !.pc = "fetch", !.nFetch = @ + 1]
    ELSE [me EXCEPT !.pc = "exit"]

\* lines 231-238, up to the first call of get_quote
WBegin(w) ==
    /\ workers[w].pc = "start"
    /\ ~workers[w].args.auto_start_at_open
    /\ log' = append_log(log, now, Msg("Starting immediate quote monitoring"))
    /\ workers' = [workers EXCEPT ![w] =
                      LoopTop([workers[w] EXCEPT !.start = now, !.placed = FALSE])]
    /\ UNCHANGED <<now, ui>>
    /\ SessionFrame

\* lines 239-282, up to the sleep or the call of place_order
WQuoteReturn(w) ==
    /\ workers[w].pc = "fetch"
    /\ \E net \in SessionQuotes :
         LET me == workers[w]
             q == get_quote(net)
             last == extract_last_price_from_quote(q)
             conv == PyFloat(last)
             side == TriggerSide(conv.f, Float(me.args.entry_price))
             tickLog == append_log(log, now, [msg |-> "Tick", f |-> conv.f])
             asleep == [me EXCEPT !.pc = AfterFailedPoll,
                                  !.wake = now + me.args.poll_interval]
         IN  IF IsDict(q) /\ Truthy(Get(q, "error"))
             THEN /\ log' = append_log(log, now, [msg |-> "Quote fetch error",
                                                  err |-> Get(q, "error").s])
                  /\ workers' = [workers EXCEPT ![w] = asleep]
             ELSE IF last.k = "null"
             THEN /\ log' = append_log(log, now, Msg("Could not extract last price"))
                  /\ workers' = [workers EXCEPT ![w] = asleep]
             ELSE IF conv.raised
             THEN /\ log' = append_log(log, now, Msg("Non-numeric last price"))
                  /\ workers' = [workers EXCEPT ![w] = asleep]
             ELSE IF side # "None"
             THEN /\ log' = append_log(tickLog, now,
                               [msg |-> "Entry touched", side |-> side])
                  /\ workers' = [workers EXCEPT ![w] =
                        [me EXCEPT !.last_f = conv.f, !.triggered_side = side,
                                   !.orders = Append(@, BuildPayload(me.args, side)),
                                   !.pc = "place"]]
             ELSE /\ log' = tickLog
                  /\ workers' = [workers EXCEPT ![w] =
                        [me EXCEPT !.last_f = conv.f, !.triggered_side = side,
                                   !.pc = "sleep",
                                   !.wake = now + me.args.poll_interval]]
    /\ UNCHANGED <<now, ui>>
    /\ SessionFrame

\* lines 282-287
WPlaceReturn(w) ==
    /\ workers[w].pc = "place"
    /\ \E net \in SessionPlaces :
         LET me == workers[w]
             resp == place_order(net)
             respLog == append_log(log, now, [msg |-> "Place order response",
                                              status_code |-> resp.status_code,
                                              field |-> resp.field])
         IN  IF resp.raised
             THEN /\ workers' = [workers EXCEPT ![w].pc = "crashed"]
                  /\ UNCHANGED log
             ELSE IF StopAfterPlace(resp)
             THEN /\ log' = append_log(respLog, now,
                               [msg |-> "Stopped monitoring after placing",
                                side |-> me.triggered_side])
                  /\ workers' = [workers EXCEPT ![w].placed = TRUE,
                                                ![w].pc = AfterStop]
             ELSE /\ log' = respLog
                  /\ workers' = [workers EXCEPT ![w].pc = "sleep",
                                   ![w].wake = now + me.args.poll_interval]
    /\ UNCHANGED <<now, ui>>
    /\ SessionFrame

\* lines 242, 247, 253, 289: time.sleep(poll_interval) returns, and the
\* loop condition of line 238 is tested
WWake(w) ==
    /\ workers[w].pc = "sleep"
    /\ now >= workers[w].wake
    /\ workers' = [workers EXCEPT ![w] = LoopTop(workers[w])]
    /\ UNCHANGED <<now, log, ui>>
    /\ SessionFrame

\* lines 291-292
WExit(w) ==
    /\ workers[w].pc = "exit"
    /\ log' = IF ~workers[w].placed
              THEN append_log(log, now, Msg("Monitoring ended: no execution"))
              ELSE log
    /\ workers' = [workers EXCEPT ![w].pc = "done"]
    /\ UNCHANGED <<now, ui>>
    /\ SessionFrame

\* the clock: when every live thread is asleep, time passes up to the first
\* time a sleep ends
Asleep == { w \in Threads : workers[w].pc = "sleep" }

Advance ==
    /\ Asleep # {}
    /\ \A w \in Threads : workers[w].pc \in {"sleep", "done", "crashed"}
    /\ \A w \in Asleep : workers[w].wake > now
    /\ \E w \in Asleep :
         /\ \A v \in Asleep : workers[w].wake <= workers[v].wake
         /\ now' = workers[w].wake
    /\ UNCHANGED <<log, ui, workers>>
    /\ SessionFrame

Begins == \E w \in Threads : WBegin(w)
QuoteReturns == \E w \in Threads : WQuoteReturn(w)
PlaceReturns == \E w \in Threads : WPlaceReturn(w)
Wakes == \E w \in Threads : WWake(w)
Exits == \E w \in Threads : WExit(w)

NextSession ==
    \/ PressLoad
    \/ PressStart
    \/ PressStop
    \/ PressManual
    \/ Display
    \/ Manual
    \/ Begins
    \/ QuoteReturns
    \/ PlaceReturns
    \/ Wakes
    \/ Exits
    \/ Advance

SpecSession == InitSession /\ [][NextSession]_vars

SpecUsedSession == InitUsedSession /\ [][NextSession]_vars

----------------------------------------------------------------------------
(* extract_last_price_from_quote on its own, lines 77-100: the responses a
   broker may send, up to MaxTopItems keys, objects of up to MaxInnerItems
   keys under them *)

MaxTopItems == 2
MaxInnerItems == 2

ResponseScalars == { JNum(1), JNum(2), JNull }

\* the dicts of at most n items with keys from K, no key twice, values from V
DictsOver(K, V, n) ==
    { JDict(items) : items \in
        { s \in SeqsUpTo(K \X V, n) :
            \A i, j \in 1..Len(s) : (i # j) => (s[i][1] # s[j][1]) } }

InnerObjects == DictsOver({"lastPrice", "last", "s"}, ResponseScalars, MaxInnerItems)

Responses ==
    DictsOver({"data", "lastPrice", "last", "NSE"},
              ResponseScalars \cup InnerObjects, MaxTopItems)
    \cup { JNull, JList }

InitExtract ==
    /\ pc = "extract_start"
    /\ \E q \in Responses :
          call = [fn |-> "extract_last_price_from_quote", quote_json |-> q,
                  result |-> JNull]
    /\ now = 0
    /\ args = [symbol |-> "RELIANCE", sec_id |-> "2885", entry_price |-> 10000,
               order_type |-> "MARKET", qty |-> 1, sl_pct |-> 50, tgt_pct |-> 100,
               poll_interval |-> 2, auto_start_at_open |-> FALSE]
    /\ target_utc = 0
    /\ start = 0
    /\ placed = FALSE
    /\ last_f = NoFloat
    /\ triggered_side = "None"
    /\ log = << >>
    /\ submitted = << >>
    /\ hist = [nFetch |-> 0]
    /\ ui = NoUi
    /\ workers = << >>

\* line 245: last = extract_last_price_from_quote(q)
ExtractCall ==
    /\ pc = "extract_start"
    /\ call' = [call EXCEPT !.result = extract_last_price_from_quote(call.quote_json)]
    /\ pc' = "extract_done"
    /\ UNCHANGED <<now, args, target_utc, start, placed, last_f, triggered_side,
                   log, submitted, hist, ui, workers>>

NextExtract == ExtractCall

SpecExtract == InitExtract /\ [][NextExtract]_vars

----------------------------------------------------------------------------
(* Properties *)

FailureMsgs == {"Quote fetch error", "Could not extract last price",
                "Non-numeric last price"}

MsgIdx(ms) == { i \in 1..Len(log) : log[i].msg \in ms }

\* the two terminal states of a run
SubmittedState ==
    /\ Len(submitted) = 1
    /\ CountMsg(log, {"Stopped monitoring after placing"}) = 1
    /\ CountMsg(log, {"Monitoring ended: no execution"}) = 0

TimedOutState ==
    /\ Len(submitted) = 0
    /\ CountMsg(log, {"Monitoring ended: no execution"}) = 1
    /\ CountMsg(log, {"Stopped monitoring after placing"}) = 0

\* C1: in every reachable state of a monitor run, whatever the quote
\* outcomes and the broker's responses, place_order has been called at most
\* once.
C1_AtMostOneOrder == Len(submitted) <= 1

\* a run that ended after the broker refused its one order
C1_Witness ==
    /\ pc = "done"
    /\ Len(submitted) = 1
    /\ hist.placeStatus = "400"
    /\ hist.nFail >= 1

RunEnded == pc \in {"done", "crashed"}

ExactlyOneTerminalState ==
    /\ SubmittedState \/ TimedOutState
    /\ ~(SubmittedState /\ TimedOutState)

NothingAfterEnd ==
    RunEnded => (log' = log /\ submitted' = submitted /\ hist' = hist)

\* C2: a run that has ended is in exactly one of SUBMITTED (one order, the
\* 'Stopped monitoring after placing' line) and TIMED_OUT (no order, the
\* 'Monitoring ended: no execution' line), never both and never neither.
\* Once ended, the run fetches no quote, submits no order and appends no log
\* line.
C2_TerminalStates ==
    /\ [](RunEnded => ExactlyOneTerminalState)
    /\ [][NothingAfterEnd]_vars

\* C3: for a numeric tick price P and entry price E the triggered side is
\* SELL when P >= E and BUY when P < E; at P = E it is SELL.
C3_TriggerRule ==
    ~last_f.nan =>
        /\ last_f.v >= args.entry_price => triggered_side = "SELL"
        /\ last_f.v < args.entry_price => triggered_side = "BUY"
        /\ last_f.v = args.entry_price => triggered_side = "SELL"

\* a tick exactly at the entry price was evaluated
C3_Witness ==
    /\ ~last_f.nan
    /\ last_f.v = args.entry_price
    /\ triggered_side = "SELL"
    /\ pc = "place"

\* every tick logged so far is a number below the entry price
AllTicksBelowEntry ==
    \A i \in MsgIdx({"Tick"}) : ~log[i].f.nan /\ log[i].f.v < args.entry_price

\* C4 as stated: with entry price 100.00, a run all of whose ticks are below
\* the entry price ends TIMED_OUT with no order.
C4_BelowEntryTimesOut ==
    (args.entry_price = 10000 /\ pc = "done" /\ AllTicksBelowEntry) =>
        (TimedOutState /\ ~placed)

\* C4 as amended: with entry price 100.00, the first tick below the entry
\* price triggers a BUY at once: one tick is logged, one BUY order is
\* submitted, and the run ends SUBMITTED, not TIMED_OUT.
C4_BelowEntryBuys ==
    (args.entry_price = 10000 /\ MsgIdx({"Tick"}) # {} /\ AllTicksBelowEntry) =>
        /\ Cardinality(MsgIdx({"Tick"})) = 1
        /\ Len(submitted) = 1
        /\ submitted[1].transactionType = "BUY"
        /\ pc \in {"place", "exit", "done"}
        /\ pc = "done" => (placed /\ SubmittedState)

\* a run with entry 100.00 that ended after failed polls and one tick of 98
C4_Witness ==
    /\ args.entry_price = 10000
    /\ pc = "done"
    /\ hist.nFail >= 1
    /\ MsgIdx({"Tick"}) # {}
    /\ \A i \in MsgIdx({"Tick"}) : ~log[i].f.nan /\ log[i].f.v = 9800

\* C5: on a trigger the order is submitted in the same iteration, with no
\* poll-interval sleep and no further quote fetch between the triggering fetch
\* and the place_order call, and after the submission there is no further
\* quote fetch and no further sleep.
C5_ImmediateSubmission ==
    Len(submitted) > 0 =>
        /\ hist.placeSleeps = hist.iterSleeps
        /\ hist.placeFetch = hist.nFetch
        /\ hist.nSleep = hist.placeSleeps
        /\ pc \in {"place", "exit", "done"}

\* a SELL submitted on a first tick of 101 with entry 100, the run over
C5_Witness ==
    /\ pc = "done"
    /\ args.entry_price = 10000
    /\ hist.nFetch = 1
    /\ ~last_f.nan /\ last_f.v = 10100
    /\ Len(submitted) = 1
    /\ submitted[1].transactionType = "SELL"

FailedPollStep ==
    (pc = "fetch" /\ hist'.cls \in {"fail", "absent", "nonnumeric"}) =>
        /\ Len(log') = Len(log) + 1
        /\ SubSeq(log', 1, Len(log)) = log
        /\ log'[Len(log')].msg \in FailureMsgs
        /\ submitted' = submitted
        /\ pc' = "sleep"

SleepStep ==
    pc = "sleep" =>
        /\ now' = now + args.poll_interval
        /\ pc' = "loop"
        /\ log' = log
        /\ submitted' = submitted

NextPollStep ==
    (pc = "loop" /\ ~placed /\ now - start < timeout_seconds) =>
        (pc' = "fetch" /\ hist'.nFetch = hist.nFetch + 1)

TickAtEntryAfterFailures ==
    (~last_f.nan /\ last_f.v = args.entry_price /\ Len(submitted) > 0) =>
        /\ CountMsg(log, FailureMsgs) = hist.nFail
        /\ \A i \in MsgIdx(FailureMsgs), j \in MsgIdx({"Tick"}) :
              log[j].f.nan \/ i < j
        /\ Len(submitted) = 1
        /\ submitted[1].transactionType = "SELL"

\* C6: a poll whose fetch fails, or whose price is absent or not a number,
\* appends exactly one failure log line, submits no order and goes to the
\* poll-interval sleep; the sleep lasts one poll interval and leads to the
\* next loop check, which starts the next poll whenever the budget allows,
\* however many polls failed before.  After k failed polls and then a tick
\* equal to the entry price, the log holds exactly k failure lines, all before
\* the tick, and exactly one SELL order was submitted.
C6_FailedPolls ==
    /\ [][FailedPollStep /\ SleepStep /\ NextPollStep]_vars
    /\ []TickAtEntryAfterFailures

\* two failed polls, then a tick at the entry price and a SELL order
C6_Witness ==
    /\ hist.nFail = 2
    /\ hist.nFetch = 3
    /\ hist.nSleep = 2
    /\ ~last_f.nan /\ last_f.v = args.entry_price
    /\ Len(submitted) = 1
    /\ submitted[1].transactionType = "SELL"
    /\ CountMsg(log, FailureMsgs) = 2

\* the run is in or past the polling loop
InMonitoring == pc \in {"loop", "fetch", "sleep", "place", "exit", "done"}

C8_EventuallyTerminal ==
    <>(pc = "done" /\ (SubmittedState \/ TimedOutState))

\* C9: on a trigger place_order is called exactly once and, whatever it
\* returns (a broker error status, a transport exception), the result is
\* logged once as 'Place order response', no exception leaves the thread, the
\* order is not retried and the run does not poll again.
C9_SubmittedWhateverReturned ==
    /\ pc = "crashed" => Len(submitted) = 0
    /\ hist.nPlaceReturn <= 1
    /\ hist.nPlaceReturn = 1 =>
          /\ Len(submitted) = 1
          /\ placed
          /\ pc \in {"exit", "done"}
          /\ hist.nFetch = hist.placeFetch
          /\ Cardinality(MsgIdx({"Place order response"})) = 1
          /\ \A i \in MsgIdx({"Place order response"}) :
                log[i].status_code = hist.placeStatus
    /\ pc = "done" /\ Len(submitted) = 1 => hist.nPlaceReturn = 1

\* the order call met a transport exception and the run ended SUBMITTED
C9_Witness ==
    /\ pc = "done"
    /\ hist.placeStatus = "exception"
    /\ hist.nPlaceReturn = 1
    /\ SubmittedState

SecondOfDay(t) == t % DaySeconds
DayOf(t) == t \div DaySeconds

\* C10: next_market_open_utc returns 09:15 IST of today when the local time
\* is before today's 09:15 and 09:15 IST of tomorrow when it is at or past
\* it; the result is strictly later than now and at most 24 hours away.
C10_NextOpen ==
    pc = "open_done" =>
        LET local == ist_now(now)
            open == ist_now(target_utc)
        IN  /\ SecondOfDay(open) = OpenSecondOfDay
            /\ SecondOfDay(local) < OpenSecondOfDay => DayOf(open) = DayOf(local)
            /\ SecondOfDay(local) >= OpenSecondOfDay => DayOf(open) = DayOf(local) + 1
            /\ target_utc > now
            /\ target_utc - now <= DaySeconds

\* at exactly 09:15:00 IST the target is tomorrow's open, 24 hours away
C10_Witness ==
    /\ pc = "open_done"
    /\ SecondOfDay(ist_now(now)) = OpenSecondOfDay
    /\ target_utc = now + DaySeconds

\* the parts of C11 that do not depend on the length asked of time.sleep
NoPollBeforeTarget ==
    (args.auto_start_at_open /\ (hist.nFetch > 0 \/ Len(submitted) > 0))
        => (now >= target_utc /\ hist.iterAt >= target_utc)

NoWaitWithoutAutoStart ==
    (~args.auto_start_at_open) => (~hist.waitSleepCalled)

\* C11 - with auto_start_at_open set, no quote is fetched and no order is
\* submitted before target_utc, and every time.sleep of the wait is asked for
\* a length from 0 to 5 seconds; without it, the first quote is fetched with
\* no wait sleep before it
C11_WaitForOpen ==
    /\ NoPollBeforeTarget
    /\ ~hist.waitSleepNegative
    /\ ~hist.waitSleepOverCap
    /\ NoWaitWithoutAutoStart

\* what C12 says of a table and a query, in its own words: trimmed and
\* lowercased, the empty query finds nothing; else the first row equal to it;
\* else the first row that has it as a substring; else nothing
ResolverSays(df, query) ==
    LET q == lower(strip(query))
        equal == { i \in 1..Len(df) : df[i].tradingsymbol_norm_lc = q }
        within == { i \in 1..Len(df) :
                      /\ df[i].tradingsymbol_norm_lc # NaNCell
                      /\ \E a \in 0..Len(df[i].tradingsymbol_norm_lc),
                            b \in 0..Len(df[i].tradingsymbol_norm_lc) :
                            SubSeq(df[i].tradingsymbol_norm_lc, a + 1, b) = q }
    IN  IF q = << >> THEN NotFound
        ELSE IF equal # {} THEN Found(df, FirstOf(equal))
        ELSE IF within # {} THEN Found(df, FirstOf(within))
        ELSE NotFound

\* C12 - find_instrument returns nothing for an empty or all-space query;
\* else the first row whose lowercase symbol equals the trimmed, lowercased
\* query; else the first row whose lowercase symbol has the query as a
\* substring; and nothing for a query no symbol equals or contains
C12_FindInstrument ==
    (pc = "find_done") => (call.result = ResolverSays(call.df, call.query))

\* the same, for the queries that have no '.' and no '(' in them
PlainQueriesResolve ==
    (pc = "find_done" /\ \A i \in 1..Len(call.query) : call.query[i] \notin {".", "("})
        => (call.result = ResolverSays(call.df, call.query))

\* a step that is one press of the Start button: the script run begins
StartPress ==
    /\ ui.pc = "idle"
    /\ ui'.presses = ui.presses + 1
    /\ (ui'.form.button = "start" \/ ui'.err = "re.error")

\* the five conditions of C13, on the widgets the run read
StartInputsValid ==
    /\ ui.loaded
    /\ ui'.form.access_token # ""
    /\ ui'.form.symbol_input # << >>
    /\ ui'.form.entry_price > 0
    /\ find_instrument(ui.df, ui'.form.symbol_input).kind = "row"

StartValidated ==
    StartPress =>
        IF ui'.form.button = "start"
        THEN /\ (workers' # workers) => StartInputsValid
             /\ (~StartInputsValid) =>
                    (ui'.err # "none" /\ workers' = workers /\ log' = log)
        ELSE ui'.err # "none" /\ workers' = workers /\ log' = log

\* C13 - a press of Start starts a thread only if the instruments table is
\* loaded, the token and the symbol are non-empty, the entry price is above
\* zero and find_instrument finds the symbol; in every other case the run
\* shows an error and starts no thread (so nothing is fetched or submitted
\* for it) and leaves the log as it was
C13_StartValidation == [][StartValidated]_vars

\* a press of Start refused for the symbol alone, nothing started or logged
C13_Witness ==
    /\ ui.pc = "display"
    /\ ui.form.button = "start"
    /\ ui.loaded
    /\ ui.form.access_token # ""
    /\ ui.form.entry_price > 0
    /\ ui.err = "Symbol not found in instruments list"
    /\ workers = << >>
    /\ log = << >>

\* the log only grows at its end
LogExtended ==
    /\ Len(log') >= Len(log)
    /\ SubSeq(log', 1, Len(log)) = log

\* the step of line 325
DisplayStep == ui.pc = "display" /\ ui'.pc # "display"

AppendOnlyStep == LogExtended /\ (DisplayStep => log' = log)

\* C14 - whatever the interleaving of the threads' appends, the handlers'
\* appends and the display, no step removes, reorders or changes an entry of
\* the log, its length never decreases, and displaying its last 400 entries
\* leaves it as it was
C14_LogAppendOnly == [][AppendOnlyStep]_vars

\* more than 400 entries, a thread's entry followed by a handler's among the
\* new ones, and the text area full
C14_Witness ==
    /\ Len(log) > DisplayCap
    /\ ui.full
    /\ \E i, j \in DisplayCap..Len(log) :
          /\ i < j
          /\ log[i].msg = "Starting immediate quote monitoring"
          /\ log[j].msg = "Stop requested"

\* what C15 says of one payload
PayloadAsConfigured(p) ==
    /\ p.transactionType = triggered_side
    /\ p.transactionType \in {"SELL", "BUY"}
    /\ p.symbol = args.symbol
    /\ p.securityId = args.sec_id
    /\ p.quantity = args.qty
    /\ p.orderType = args.order_type
    /\ p.stopLossPercent = args.sl_pct
    /\ p.targetPercent = args.tgt_pct
    /\ ("price" \in DOMAIN p) <=> (args.order_type = "LIMIT")
    /\ (args.order_type = "LIMIT") => (p.price = args.entry_price)

\* C15 - every submitted payload has the triggered side as transactionType,
\* the symbol and securityId the run was started with, the configured
\* quantity, order type, stop-loss and target percentages, and a price field
\* exactly when the order type is LIMIT, equal to the configured entry price
C15_Payload ==
    \A i \in 1..Len(submitted) : PayloadAsConfigured(submitted[i])

\* a LIMIT order submitted on a tick that is not at the entry price
C15_Witness ==
    /\ Len(submitted) = 1
    /\ args.order_type = "LIMIT"
    /\ ~last_f.nan
    /\ last_f.v # args.entry_price
    /\ submitted[1].price = args.entry_price

\* the entries of the wait: the first entry of an auto-start run is stamped
\* with the time the wait began, 'Market open reached' with the time it ended
WaitOver ==
    /\ args.auto_start_at_open
    /\ \E i \in 1..Len(log) : log[i].msg = "Market open reached"

WaitBegan == log[1].t

WaitEnded == log[CHOOSE i \in 1..Len(log) : log[i].msg = "Market open reached"].t

\* the k-th full minute of the wait has a 'Time to market open' entry
MinuteHasLine(k) ==
    \E i \in 1..Len(log) :
        /\ log[i].msg = "Time to market open"
        /\ log[i].t >= WaitBegan + 60 * (k - 1)
        /\ log[i].t < WaitBegan + 60 * k

\* C16 - in a wait that began at least one minute before the open, every
\* full minute of the wait has at least one 'Time to market open: N minutes'
\* entry
C16_MinuteLines ==
    WaitOver => \A k \in 1..((WaitEnded - WaitBegan) \div 60) : MinuteHasLine(k)

\* an object that has one of the two price aliases, and the value C17 says
\* is taken from it
HasAlias(d) == IsDict(d) /\ (HasKey(d, "lastPrice") \/ HasKey(d, "last"))

AliasValue(d) == IF HasKey(d, "lastPrice") THEN Get(d, "lastPrice") ELSE Get(d, "last")

\* the objects C17 names: the response itself, the object under 'data', the
\* objects one level under any other key
AliasObjects(q) ==
    IF ~IsDict(q) THEN {}
    ELSE { d \in {q} \cup { q.items[i][2] : i \in 1..Len(q.items) } : HasAlias(d) }

\* C17 - for every response in which 'lastPrice' or 'last' is a key of the
\* response, of the object under 'data' or of an object one level under
\* another key, extract_last_price_from_quote returns the value under that
\* alias ('lastPrice' before 'last' within one object); for every response
\* with no such key at those depths it returns None
C17_ExtractLastPrice ==
    (pc = "extract_done") =>
        IF AliasObjects(call.quote_json) # {}
        THEN \E d \in AliasObjects(call.quote_json) : call.result = AliasValue(d)
        ELSE call.result = JNull

\* the same for the responses whose 'data', if they have one that is not
\* empty, zero or null, is an object with an alias in it
DataCarriesAlias(q) ==
    (IsDict(q) /\ Truthy(Get(q, "data"))) => HasAlias(Get(q, "data"))

ExtractWhenDataCarriesAlias ==
    (pc = "extract_done" /\ DataCarriesAlias(call.quote_json)) =>
        IF AliasObjects(call.quote_json) # {}
        THEN \E d \in AliasObjects(call.quote_json) : call.result = AliasValue(d)
        ELSE call.result = JNull

\* no thread has submitted more than one order, so n threads have submitted
\* at most n
RECURSIVE OrdersOfFirst(_)
OrdersOfFirst(n) ==
    IF n = 0 THEN 0 ELSE OrdersOfFirst(n - 1) + Len(workers[n].orders)

OneOrderPerThread ==
    /\ \A w \in Threads : Len(workers[w].orders) <= 1
    /\ OrdersOfFirst(Len(workers)) <= Len(workers)

\* a step changes the locals of at most one thread and the arguments of none
ThreadsIndependent ==
    /\ Len(workers') >= Len(workers)
    /\ \A w \in Threads : workers'[w].args = workers[w].args
    /\ Cardinality({ w \in Threads : workers'[w] # workers[w] }) <= 1

\* a valid press of Start starts a thread, whatever threads there are
StartNotRejected ==
    (StartPress /\ ui'.form.button = "start" /\ StartInputsValid)
        => (Len(workers') = Len(workers) + 1)

\* C18 - a press of Start with valid inputs starts a thread even while
\* another is running; every thread keeps its own arguments and its own
\* placed flag, a step of one thread changes nothing of another, and each
\* thread submits at most one order, so that n threads submit at most n
C18_IndependentThreads ==
    []OneOrderPerThread /\ [][ThreadsIndependent /\ StartNotRejected]_vars

\* two threads for the same instrument, started one after the other, both
\* still running and each with its order submitted
C18_Witness ==
    /\ Len(workers) = 2
    /\ workers[1].pc = "place"
    /\ workers[2].pc = "place"
    /\ OrdersOfFirst(2) = 2
    /\ workers[1].orders[1].securityId = workers[2].orders[1].securityId

\* a step that is one press of the Stop button
StopPress ==
    /\ ui.pc = "idle"
    /\ ui'.presses = ui.presses + 1
    /\ ui'.form.button = "stop"

StopOnlyLogs ==
    StopPress =>
        /\ log' = Append(log, [t |-> ist_now(now), msg |-> "Stop requested"])
        /\ workers' = workers

\* C19 - a press of Stop appends one line to the log and leaves the state of
\* every thread as it was
C19_StopOnlyLogs == [][StopOnlyLogs]_vars

\* a thread that was running when Stop was pressed, and has polled and
\* submitted its order since
C19_Witness ==
    /\ Len(workers) = 1
    /\ Len(workers[1].orders) = 1
    /\ \E i, j, k \in 1..Len(log) :
          /\ i < j
          /\ j < k
          /\ log[i].msg = "Starting immediate quote monitoring"
          /\ log[j].msg = "Stop requested"
          /\ log[k].msg = "Entry touched"

\* the same thread, timed out after the press instead
StoppedThenTimedOut ==
    /\ Len(workers) = 1
    /\ workers[1].pc = "done"
    /\ \E i, j, k \in 1..Len(log) :
          /\ i < j
          /\ j < k
          /\ log[i].msg = "Starting immediate quote monitoring"
          /\ log[j].msg = "Stop requested"
          /\ log[k].msg = "Monitoring ended: no execution"

\* the polls float() made a number of ('Tick' entries), and those among them
\* whose number is ordered (not NaN)
TickIdx == MsgIdx({"Tick"})

OrderedTickIdx == { i \in TickIdx : ~log[i].f.nan }

Triggered(i) == i < Len(log) /\ log[i + 1].msg = "Entry touched"

\* C20 - every poll that yields a numeric price triggers an order at once; a
\* run ends timed out only if every one of its polls failed or yielded an
\* absent or non-numeric price; the sleep after the evaluation (line 289) is
\* never reached after a numeric tick
C20_NumericTickTriggers ==
    /\ \A i \in TickIdx : Triggered(i) /\ Len(submitted) = 1
    /\ (pc = "done" /\ TimedOutState) => (TickIdx = {} /\ hist.nFail = hist.nFetch)
    /\ (pc = "sleep") => (log[Len(log)].msg \in FailureMsgs)

\* C20 as amended - every poll that yields a number other than NaN triggers
\* an order at once; a run ends timed out only if every one of its polls
\* failed or yielded an absent, non-numeric or NaN price; the sleep of line
\* 289 is reached only after a NaN tick
C20_OrderedTickTriggers ==
    /\ \A i \in OrderedTickIdx : Triggered(i) /\ Len(submitted) = 1
    /\ (pc = "done" /\ TimedOutState) =>
          /\ OrderedTickIdx = {}
          /\ hist.nFail + Cardinality(TickIdx) = hist.nFetch
    /\ (pc = "sleep") =>
          \/ log[Len(log)].msg \in FailureMsgs
          \/ (log[Len(log)].msg = "Tick" /\ log[Len(log)].f.nan)

\* a NaN tick that triggered nothing, the sleep of line 289, then an ordered
\* tick that triggered the order
C20_Witness ==
    /\ Len(submitted) = 1
    /\ \E i \in TickIdx \ OrderedTickIdx, j \in OrderedTickIdx :
          /\ i < j
          /\ ~Triggered(i)
          /\ Triggered(j)

====
